---- MODULE Spec2Model ----
(***************************************************************************)
(* JSON_Server: the order-preserving document decoder, the template        *)
(* registry, the design cache and the two-pass renderer of main.go          *)
(* (the revision with parseOrderedJSON, listed in src/TEST_RESULTS.md).     *)
(***************************************************************************)
EXTENDS Integers, Sequences, FiniteSets, TLC

(***************************************************************************)
(* Raw document text.  The text of index.json is a sequence of lexical      *)
(* units: the six structural characters, whitespace, string literals        *)
(* (v = the string's content) and the other literals (numbers, true,        *)
(* false, null).  A quoted key directly followed by ':' is an "S" unit      *)
(* directly followed by a "CO" unit.                                        *)
(***************************************************************************)
T(t) == [t |-> t, v |-> ""]
S(s) == [t |-> "S", v |-> s]
L(s) == [t |-> "L", v |-> s]

\* Source values and their text, as an author writes them into index.json.
SStr(s)  == [kind |-> "str", s |-> s]
SLit(s)  == [kind |-> "lit", s |-> s]
SArr(xs) == [kind |-> "arr", items |-> xs]
SObj(es) == [kind |-> "obj", ents |-> es]
\* "key": val  (sp: the author left whitespace between the key and the colon)
Entry(k, v)   == [key |-> k, sp |-> FALSE, val |-> v]
EntrySp(k, v) == [key |-> k, sp |-> TRUE, val |-> v]
\* A file that ends before its last character.
SCut(v) == [kind |-> "cut", of |-> v]

RECURSIVE TextOf(_), TextEnts(_, _), TextItems(_, _)
TextOf(v) ==
  CASE v.kind = "str" -> << S(v.s) >>
    [] v.kind = "lit" -> << L(v.s) >>
    [] v.kind = "arr" -> << T("LK") >> \o TextItems(v.items, 1) \o << T("RK") >>
    [] v.kind = "obj" -> << T("LB") >> \o TextEnts(v.ents, 1) \o << T("RB") >>
    [] v.kind = "cut" -> SubSeq(TextOf(v.of), 1, Len(TextOf(v.of)) - 1)

TextEnts(es, i) ==
  IF i > Len(es) THEN << >>
  ELSE (IF i > 1 THEN << T("CM"), T("WS") >> ELSE << >>)
       \o << S(es[i].key) >>
       \o (IF es[i].sp THEN << T("WS") >> ELSE << >>)
       \o << T("CO"), T("WS") >>
       \o TextOf(es[i].val)
       \o TextEnts(es, i + 1)

TextItems(xs, i) ==
  IF i > Len(xs) THEN << >>
  ELSE (IF i > 1 THEN << T("CM"), T("WS") >> ELSE << >>)
       \o TextOf(xs[i]) \o TextItems(xs, i + 1)

(***************************************************************************)
(* encoding/json as the program uses it.  Decoded values: string, other     *)
(* scalar (float64, bool, nil), []interface{} and map[string]interface{}.   *)
(* A Go map has no order and one value per key: it is a set of (key, val)   *)
(* pairs with distinct keys, a later duplicate replacing an earlier one.    *)
(***************************************************************************)
VStr(s)  == [kind |-> "str", s |-> s]
VLit(s)  == [kind |-> "lit", s |-> s]
VArr(xs) == [kind |-> "arr", items |-> xs]
VMap(m)  == [kind |-> "map", m |-> m]
NoVal    == [kind |-> "none"]

MapHas(m, k) == \E e \in m : e.key = k
MapGet(m, k) == (CHOOSE e \in m : e.key = k).val
MapPut(m, k, v) == {e \in m : e.key # k} \cup {[key |-> k, val |-> v]}
MapKeys(m) == {e.key : e \in m}

RECURSIVE SkipWS(_, _)
SkipWS(toks, i) ==
  IF i <= Len(toks) /\ toks[i].t = "WS" THEN SkipWS(toks, i + 1) ELSE i

ScanFail == [ok |-> FALSE, val |-> NoVal, next |-> 0]
ScanOk(v, n) == [ok |-> TRUE, val |-> v, next |-> n]

\* One JSON value starting at or after position i0: the decoded value and
\* the position after it, or a failure.
RECURSIVE ScanValue(_, _), ScanMembers(_, _, _), ScanElems(_, _, _)
ScanValue(toks, i0) ==
  LET i == SkipWS(toks, i0) IN
  IF i > Len(toks) THEN ScanFail
  ELSE CASE toks[i].t = "S" -> ScanOk(VStr(toks[i].v), i + 1)
         [] toks[i].t = "L" -> ScanOk(VLit(toks[i].v), i + 1)
         [] toks[i].t = "LB" ->
              LET j == SkipWS(toks, i + 1) IN
              IF j <= Len(toks) /\ toks[j].t = "RB" THEN ScanOk(VMap({}), j + 1)
              ELSE ScanMembers(toks, j, {})
         [] toks[i].t = "LK" ->
              LET j == SkipWS(toks, i + 1) IN
              IF j <= Len(toks) /\ toks[j].t = "RK" THEN ScanOk(VArr(<< >>), j + 1)
              ELSE ScanElems(toks, j, << >>)
         [] OTHER -> ScanFail

ScanMembers(toks, i, acc) ==
  IF i > Len(toks) \/ toks[i].t # "S" THEN ScanFail
  ELSE LET c == SkipWS(toks, i + 1) IN
       IF c > Len(toks) \/ toks[c].t # "CO" THEN ScanFail
       ELSE LET r == ScanValue(toks, c + 1) IN
            IF ~r.ok THEN ScanFail
            ELSE LET acc2 == MapPut(acc, toks[i].v, r.val)
                     n == SkipWS(toks, r.next) IN
                 IF n > Len(toks) THEN ScanFail
                 ELSE IF toks[n].t = "RB" THEN ScanOk(VMap(acc2), n + 1)
                 ELSE IF toks[n].t = "CM" THEN ScanMembers(toks, SkipWS(toks, n + 1), acc2)
                 ELSE ScanFail

ScanElems(toks, i, acc) ==
  LET r == ScanValue(toks, i) IN
  IF ~r.ok THEN ScanFail
  ELSE LET acc2 == Append(acc, r.val)
           n == SkipWS(toks, r.next) IN
       IF n > Len(toks) THEN ScanFail
       ELSE IF toks[n].t = "RK" THEN ScanOk(VArr(acc2), n + 1)
       ELSE IF toks[n].t = "CM" THEN ScanElems(toks, SkipWS(toks, n + 1), acc2)
       ELSE ScanFail

\* json.Unmarshal(data, &jsonData) with jsonData a map[string]interface{}:
\* the whole text must be one value, and that value an object (null leaves
\* the map nil, which reads as an empty map).
Unmarshal(data) ==
  LET r == ScanValue(data, 1) IN
  IF r.ok /\ SkipWS(data, r.next) > Len(data)
     /\ (r.val.kind = "map" \/ r.val = VLit("null"))
  THEN [ok |-> TRUE, m |-> IF r.val.kind = "map" THEN r.val.m ELSE {}]
  ELSE [ok |-> FALSE, m |-> {}]

\* The loop `for decoder.More() { token := decoder.Token(); keys = append(keys,
\* key); decoder.Decode(&dummy) }` from position i0, `first` telling whether
\* the decoder stands right after the opening brace.  The key is appended
\* before its value is decoded, and any decoder error ends the loop with the
\* keys read so far.
RECURSIVE KeyLoop(_, _, _, _)
KeyLoop(toks, i0, first, keys) ==
  LET i == SkipWS(toks, i0) IN
  IF i > Len(toks) \/ toks[i].t \in {"RB", "RK"} THEN keys
  ELSE LET k == IF first THEN i
                ELSE IF toks[i].t = "CM" THEN SkipWS(toks, i + 1) ELSE 0 IN
       IF k = 0 \/ k > Len(toks) \/ toks[k].t # "S" THEN keys
       ELSE LET c == SkipWS(toks, k + 1)
                keys2 == Append(keys, toks[k].v) IN
            IF c > Len(toks) \/ toks[c].t # "CO" THEN keys2
            ELSE LET r == ScanValue(toks, c + 1) IN
                 IF ~r.ok THEN keys2 ELSE KeyLoop(toks, r.next, FALSE, keys2)

extractJSONKeyOrder(jsonStr) ==
  KeyLoop(jsonStr, SkipWS(jsonStr, 1) + 1, TRUE, << >>)

\* strings.Index(jsonStr, "\"objectKey\":"): the first place where the quoted
\* key is directly followed by a colon, at any nesting depth; 0 when none.
RECURSIVE IndexKeyColon(_, _, _)
IndexKeyColon(jsonStr, objectKey, i) ==
  IF i + 1 > Len(jsonStr) THEN 0
  ELSE IF jsonStr[i] = S(objectKey) /\ jsonStr[i + 1].t = "CO" THEN i
  ELSE IndexKeyColon(jsonStr, objectKey, i + 1)

\* strings.Index(jsonStr[idx:], "{"): the first opening brace at or after i.
RECURSIVE IndexBrace(_, _)
IndexBrace(jsonStr, i) ==
  IF i > Len(jsonStr) THEN 0
  ELSE IF jsonStr[i].t = "LB" THEN i
  ELSE IndexBrace(jsonStr, i + 1)

\* The brace-counting loop: the position after the brace that closes the
\* one opened before position i (Len + 1 when the text ends first).
RECURSIVE MatchBrace(_, _, _)
MatchBrace(jsonStr, i, braceCount) ==
  IF i > Len(jsonStr) \/ braceCount = 0 THEN i
  ELSE MatchBrace(jsonStr, i + 1,
                  IF jsonStr[i].t = "LB" THEN braceCount + 1
                  ELSE IF jsonStr[i].t = "RB" THEN braceCount - 1
                  ELSE braceCount)

extractInnerKeyOrder(jsonStr, objectKey) ==
  LET idx == IndexKeyColon(jsonStr, objectKey, 1) IN
  IF idx = 0 THEN << >>
  ELSE LET brace == IndexBrace(jsonStr, idx) IN
       IF brace = 0 THEN << >>
       ELSE LET startIdx == brace + 1
                endIdx == MatchBrace(jsonStr, startIdx, 1)
                objectStr == SubSeq(jsonStr, startIdx, endIdx - 2)
            IN KeyLoop(<< T("LB") >> \o objectStr \o << T("RB") >>, 2, TRUE, << >>)

\* The pairs of one content item: the inner keys in extracted order that
\* exist in the decoded map, each with the map's value.
RECURSIVE PairsOf(_, _, _)
PairsOf(innerKeyOrder, contentMap, i) ==
  IF i > Len(innerKeyOrder) THEN << >>
  ELSE (IF MapHas(contentMap, innerKeyOrder[i])
        THEN << [Key |-> innerKeyOrder[i], Value |-> MapGet(contentMap, innerKeyOrder[i])] >>
        ELSE << >>)
       \o PairsOf(innerKeyOrder, contentMap, i + 1)

\* The block list when the flags entry is not skipped.
RECURSIVE ItemsWithFlags(_, _, _, _)
ItemsWithFlags(data, jsonData, keyOrder, i) ==
  IF i > Len(keyOrder) THEN << >>
  ELSE LET topKey == keyOrder[i] IN
       (IF MapHas(jsonData, topKey) /\ MapGet(jsonData, topKey).kind = "map"
        THEN << [ID |-> topKey,
                 Content |-> PairsOf(extractInnerKeyOrder(data, topKey),
                                     MapGet(jsonData, topKey).m, 1)] >>
        ELSE << >>)
       \o ItemsWithFlags(data, jsonData, keyOrder, i + 1)

RECURSIVE ItemsOf(_, _, _, _)
ItemsOf(data, jsonData, keyOrder, i) ==
  IF i > Len(keyOrder) THEN << >>
  ELSE LET topKey == keyOrder[i] IN
       (IF topKey # "flags" /\ MapHas(jsonData, topKey)
           /\ MapGet(jsonData, topKey).kind = "map"
        THEN << [ID |-> topKey,
                 Content |-> PairsOf(extractInnerKeyOrder(data, topKey),
                                     MapGet(jsonData, topKey).m, 1)] >>
        ELSE << >>)
       \o ItemsOf(data, jsonData, keyOrder, i + 1)

parseOrderedJSON(data) ==
  LET u == Unmarshal(data) IN
  IF ~u.ok THEN [ok |-> FALSE, items |-> << >>]
  ELSE [ok |-> TRUE, items |-> ItemsOf(data, u.m, extractJSONKeyOrder(data), 1)]

(***************************************************************************)
(* Strings.  A string is an atom; the string functions the program calls    *)
(* are computed on its spelling, a sequence of words and blanks.            *)
(***************************************************************************)
\* The spelling of the strings that are used as design prompts or read by
\* strings.ToLower; any other string is one word.
Words(s) ==
  CASE s = ""            -> << >>
    [] s = " dark "      -> << " ", "dark", " " >>
    [] s = "dark moody"  -> << "dark", " ", "moody" >>
    [] s = "Moody Dark"  -> << "Moody", " ", "Dark" >>
    [] s = "clean serif" -> << "clean", " ", "serif" >>
    [] s = "Serif CLEAN" -> << "Serif", " ", "CLEAN" >>
    [] s = "moody clean" -> << "moody", " ", "clean" >>
    [] s = "DARK clean Moody serif" ->
         << "DARK", " ", "clean", " ", "Moody", " ", "serif" >>
    [] OTHER             -> << s >>

\* unicode.ToLower on the words in use.
LowerWord(w) ==
  CASE w = "Moody"     -> "moody"
    [] w = "Dark"      -> "dark"
    [] w = "DARK"      -> "dark"
    [] w = "Serif"     -> "serif"
    [] w = "CLEAN"     -> "clean"
    [] w = "Bootstrap" -> "bootstrap"
    [] w = "SECRET"    -> "secret"
    [] OTHER           -> w

ToLower(s) == [i \in 1..Len(Words(s)) |-> LowerWord(Words(s)[i])]

\* strings.TrimSpace: the spelling without leading and trailing blanks.
RECURSIVE TrimLeft(_), TrimRight(_)
TrimLeft(ws)  == IF ws # << >> /\ Head(ws) = " " THEN TrimLeft(Tail(ws)) ELSE ws
TrimRight(ws) == IF ws # << >> /\ ws[Len(ws)] = " "
                 THEN TrimRight(SubSeq(ws, 1, Len(ws) - 1)) ELSE ws
TrimSpace(s) == TrimRight(TrimLeft(Words(s)))

\* Whether the word w holds the keyword kw as a substring.
HasSub(w, kw) ==
  \/ w = kw
  \/ w = "darkness" /\ kw = "dark"
  \/ w = "sans-serif" /\ kw = "serif"

\* strings.Contains(lowered, keyword): a keyword has no blank, so it lies
\* inside one word.
Contains(ws, kw) == \E i \in 1..Len(ws) : HasSub(ws[i], kw)

\* fmt.Sprintf("%v", v) of a decoded scalar; nil prints as <nil>.
Sprintv(v) ==
  CASE v.kind = "str" -> v.s
    [] v.kind = "lit" -> (IF v.s = "null" THEN "<nil>" ELSE v.s)
    [] OTHER          -> "<composite>"

(***************************************************************************)
(* The template registry (the global `templates`) and the files it is       *)
(* parsed from.                                                             *)
(***************************************************************************)
\* generateUUID(): the md5 of the process id, one value per process.
NewUUID == "U_pid"
\* A directory left under components/cached by an earlier process.
OldUUID == "U_old"
DirNames == {OldUUID, NewUUID}
\* Strings of length 32.
Len32(s) == s \in DirNames

\* A directory of components/cached: prompt.txt, h1.html, div.html, and the
\* card.html that a hand-made design may bring.
NoDir == [exists |-> FALSE, prompt |-> {}, h1 |-> {}, div |-> {}, card |-> {}]

\* A parsed template: where it was parsed from and what it does.  body
\* "dot" prints its argument ({{.}}); "field" reads a field of its argument
\* ({{.title}}) and fails on an argument that is not a map, after it has
\* written the text before the field.
Tpl(dir, body) == [dir |-> dir, body |-> body]
NoTpl == [dir |-> "", body |-> [kind |-> "none"]]

NilTemplates == [nil |-> TRUE, set |-> {}, escaped |-> FALSE]
Registry(set) == [nil |-> FALSE, set |-> set, escaped |-> FALSE]

\* templates.Lookup(name)
Lookup(templates, name) ==
  IF \E e \in templates.set : e.name = name
  THEN (CHOOSE e \in templates.set : e.name = name).tpl
  ELSE NoTpl

\* template.ParseGlob("components/*.html"): nil when no file matches.
ParseDefault(components) ==
  IF components = {} THEN NilTemplates
  ELSE Registry({[name |-> c.name, tpl |-> Tpl("components", c.body)] : c \in components})

\* The *.html files of components/cached/<uuid>, in glob (name) order.
CustomFiles(cached, uuid) ==
  IF uuid \notin DirNames \/ ~cached[uuid].exists THEN << >>
  ELSE (IF cached[uuid].card = {} THEN << >>
        ELSE << [name |-> "card.html", tpl |-> Tpl(uuid, CHOOSE b \in cached[uuid].card : TRUE)] >>)
       \o
       (IF cached[uuid].div = {} THEN << >>
        ELSE << [name |-> "div.html", tpl |-> Tpl(uuid, CHOOSE b \in cached[uuid].div : TRUE)] >>)
       \o
       (IF cached[uuid].h1 = {} THEN << >>
        ELSE << [name |-> "h1.html", tpl |-> Tpl(uuid, CHOOSE b \in cached[uuid].h1 : TRUE)] >>)

\* Parsing one file into an existing set: the name is added or redefined.
\* html/template refuses to parse into a set that has executed a template.
MergeFile(templates, f) ==
  IF templates.escaped THEN templates
  ELSE [templates EXCEPT !.set = {e \in @ : e.name # f.name} \cup {f}]

RECURSIVE MergeFiles(_, _, _)
MergeFiles(templates, files, i) ==
  IF i > Len(files) THEN templates
  ELSE MergeFiles(MergeFile(templates, files[i]), files, i + 1)

\* parseTemplates(customUUID), run without interruption.
parseTemplates(components, cached, customUUID) ==
  LET defaults == ParseDefault(components)
      files == CustomFiles(cached, customUUID) IN
  IF customUUID = "" \/ files = << >> THEN defaults
  ELSE IF defaults.nil THEN Registry({files[i] : i \in 1..Len(files)})
  ELSE MergeFiles(defaults, files, 1)

(***************************************************************************)
(* The design cache.                                                        *)
(***************************************************************************)
\* The keyword tests with the dark rule applied after the moody rule.
StyleOfDarkLast(prompt) ==
  LET promptLower == ToLower(prompt)
      s0 == [bgColor |-> "#ffffff", textColor |-> "#333333",
             accentColor |-> "#3498db", font |-> "sans-serif"]
      s1 == IF Contains(promptLower, "moody")
            THEN [s0 EXCEPT !.bgColor = "#1a1a1a", !.textColor = "#dcdcdc",
                            !.accentColor = "#8e44ad"] ELSE s0
      s2 == IF Contains(promptLower, "dark")
            THEN [s1 EXCEPT !.bgColor = "#2c3e50", !.textColor = "#ecf0f1",
                            !.accentColor = "#e74c3c"] ELSE s1
      s3 == IF Contains(promptLower, "clean")
            THEN [s2 EXCEPT !.font = "'Helvetica Neue', Helvetica, Arial, sans-serif"] ELSE s2
      s4 == IF Contains(promptLower, "serif")
            THEN [s3 EXCEPT !.font = "Georgia, serif"] ELSE s3
  IN s4

\* generateTemplates: the four keyword tests in program order, each match
\* overwriting its parameters.
StyleOf(prompt) ==
  LET promptLower == ToLower(prompt)
      s0 == [bgColor |-> "#ffffff", textColor |-> "#333333",
             accentColor |-> "#3498db", font |-> "sans-serif"]
      s1 == IF Contains(promptLower, "dark")
            THEN [s0 EXCEPT !.bgColor = "#2c3e50", !.textColor = "#ecf0f1",
                            !.accentColor = "#e74c3c"] ELSE s0
      s2 == IF Contains(promptLower, "moody")
            THEN [s1 EXCEPT !.bgColor = "#1a1a1a", !.textColor = "#dcdcdc",
                            !.accentColor = "#8e44ad"] ELSE s1
      s3 == IF Contains(promptLower, "clean")
            THEN [s2 EXCEPT !.font = "'Helvetica Neue', Helvetica, Arial, sans-serif"] ELSE s2
      s4 == IF Contains(promptLower, "serif")
            THEN [s3 EXCEPT !.font = "Georgia, serif"] ELSE s3
  IN s4

h1Content(prompt) ==
  [kind |-> "h1", accentColor |-> StyleOf(prompt).accentColor, font |-> StyleOf(prompt).font]
divContent(prompt) ==
  [kind |-> "div", bgColor |-> StyleOf(prompt).bgColor, textColor |-> StyleOf(prompt).textColor]

\* ioutil.ReadDir(cachedDir): the directories, sorted by name.
DirOrder == << OldUUID, NewUUID >>
ReadDir(cached) == SelectSeq(DirOrder, LAMBDA d : cached[d].exists)

\* Step 1: the prompt has the length of an identifier and names a directory.
IsKnownUUID(cached, prompt) == Len32(prompt) /\ cached[prompt].exists

\* Step 2, one directory: prompt.txt is readable and equals the prompt up to
\* surrounding whitespace.
PromptMatches(cached, d, prompt) ==
  /\ cached[d].exists
  /\ \E content \in cached[d].prompt : TrimSpace(content) = TrimSpace(prompt)

RECURSIVE ScanDirs(_, _, _, _)
ScanDirs(cached, files, prompt, i) ==
  IF i > Len(files) THEN ""
  ELSE IF PromptMatches(cached, files[i], prompt) THEN files[i]
  ELSE ScanDirs(cached, files, prompt, i + 1)

\* A write that leaves the file as it was.
WriteNothing(cached, d, p) == cached

\* Step 3, the writes: os.MkdirAll, prompt.txt, h1.html, div.html.
MkdirAll(cached, d)        == [cached EXCEPT ![d].exists = TRUE]
WritePrompt(cached, d, p)  == [cached EXCEPT ![d].prompt = {p}]
WriteH1(cached, d, p)      == [cached EXCEPT ![d].h1 = {h1Content(p)}]
WriteDiv(cached, d, p)     == [cached EXCEPT ![d].div = {divContent(p)}]

\* What may become of the three ioutil.WriteFile calls, whose errors the
\* program does not look at: each file is written or left as it was.
WriteOutcomes == [prompt : BOOLEAN, h1 : BOOLEAN, div : BOOLEAN]
AllWritten == [prompt |-> TRUE, h1 |-> TRUE, div |-> TRUE]

\* Step 3 after os.MkdirAll succeeded: prompt.txt, then generateTemplates.
Generate(cached, d, prompt, written) ==
  LET c1 == IF written.prompt THEN WritePrompt(cached, d, prompt) ELSE cached
      c2 == IF written.h1 THEN WriteH1(c1, d, prompt) ELSE c1
      c3 == IF written.div THEN WriteDiv(c2, d, prompt) ELSE c2
  IN c3

\* getOrGenerateDesign(prompt), run without interruption; mkdirOk is whether
\* os.MkdirAll succeeds, written which of the files get written.
getOrGenerateDesignIO(cached, prompt, mkdirOk, written) ==
  IF IsKnownUUID(cached, prompt)
  THEN [uuid |-> prompt, cached |-> cached, generated |-> FALSE, failed |-> FALSE]
  ELSE LET found == ScanDirs(cached, ReadDir(cached), prompt, 1) IN
       IF found # ""
       THEN [uuid |-> found, cached |-> cached, generated |-> FALSE, failed |-> FALSE]
       ELSE IF ~mkdirOk
       THEN [uuid |-> "", cached |-> cached, generated |-> FALSE, failed |-> TRUE]
       ELSE [uuid |-> NewUUID,
             cached |-> Generate(MkdirAll(cached, NewUUID), NewUUID, prompt, written),
             generated |-> TRUE, failed |-> written # AllWritten]

\* The same when every write succeeds.
getOrGenerateDesign(cached, prompt, mkdirOk) ==
  getOrGenerateDesignIO(cached, prompt, mkdirOk, AllWritten)

(***************************************************************************)
(* renderHTML.  The response is kept as the sequence of pieces the program  *)
(* writes, each piece with the value it prints.                             *)
(***************************************************************************)
standardTags ==
  {"h1", "h2", "h3", "h4", "h5", "h6", "p", "div", "span", "ul", "ol", "li",
   "img", "a", "button", "input", "form", "table", "tr", "td", "th", "thead",
   "tbody", "section", "article", "header", "footer", "nav", "main", "aside",
   "figure", "figcaption"}

CssLibs == {"bootstrap", "tailwind", "bulma", "materialize"}

\* The CDN tags added to the head: the lower-cased csslib flag when it names
\* a known framework, "" otherwise.
CssLibOf(flags) ==
  IF MapHas(flags, "csslib") /\ MapGet(flags, "csslib") # VLit("null")
  THEN LET cssLibStr == ToLower(Sprintv(MapGet(flags, "csslib"))) IN
       IF Len(cssLibStr) = 1 /\ cssLibStr[1] \in CssLibs THEN cssLibStr[1] ELSE ""
  ELSE ""

hasTemplate(templates, tag) ==
  /\ ~templates.nil
  /\ (Lookup(templates, tag \o ".html") # NoTpl \/ Lookup(templates, tag) # NoTpl)

\* First pass, one pair.
Collect(nonStandardData, templates, pair) ==
  IF pair.Key \notin standardTags /\ ~hasTemplate(templates, pair.Key)
  THEN MapPut(nonStandardData, pair.Key, pair.Value)
  ELSE nonStandardData

RECURSIVE CollectPairs(_, _, _, _), CollectItems(_, _, _, _)
CollectPairs(nonStandardData, templates, pairs, i) ==
  IF i > Len(pairs) THEN nonStandardData
  ELSE CollectPairs(Collect(nonStandardData, templates, pairs[i]), templates, pairs, i + 1)
CollectItems(nonStandardData, templates, items, i) ==
  IF i > Len(items) THEN nonStandardData
  ELSE CollectItems(CollectPairs(nonStandardData, templates, items[i].Content, 1),
                    templates, items, i + 1)

\* One piece of the body.
Piece(o, tag, tpl, val) == [o |-> o, tag |-> tag, tpl |-> tpl, val |-> val]

\* tmpl.Execute(w, content) and the comment written when it fails.
Execute(tpl, tag, content) ==
  IF tpl.body.kind = "field" /\ content.kind # "map"
  THEN << Piece("partial", tag, tpl, NoVal), Piece("error", tag, tpl, NoVal) >>
  ELSE << Piece("template", tag, tpl, content) >>

RECURSIVE ListItems(_, _)
ListItems(list, i) ==
  IF i > Len(list) THEN << >>
  ELSE << Piece("li", "ul", NoTpl, list[i]) >> \o ListItems(list, i + 1)

\* The switch on the tag of a standard tag without a template.
Builtin(tag, content) ==
  CASE tag = "img" -> << Piece("img", tag, NoTpl, content) >>
    [] tag = "ul"  -> << Piece("<ul>", tag, NoTpl, NoVal) >>
                      \o (IF content.kind = "arr" THEN ListItems(content.items, 1)
                          ELSE << Piece("li", "ul", NoTpl, content) >>)
                      \o << Piece("</ul>", tag, NoTpl, NoVal) >>
    [] OTHER       -> << Piece("element", tag, NoTpl, content) >>

\* A body pass that asks for the bare template name before the suffixed one.
RenderPairBareFirst(templates, pair) ==
  LET tag == pair.Key
      content == pair.Value IN
  IF ~templates.nil /\ Lookup(templates, tag) # NoTpl
  THEN Execute(Lookup(templates, tag), tag, content)
  ELSE IF ~templates.nil /\ Lookup(templates, tag \o ".html") # NoTpl
  THEN Execute(Lookup(templates, tag \o ".html"), tag, content)
  ELSE IF tag \notin standardTags THEN << >>
  ELSE Builtin(tag, content)

\* Body pass, one pair.
RenderPair(templates, pair) ==
  LET tag == pair.Key
      content == pair.Value IN
  IF ~templates.nil /\ Lookup(templates, tag \o ".html") # NoTpl
  THEN Execute(Lookup(templates, tag \o ".html"), tag, content)
  ELSE IF ~templates.nil /\ Lookup(templates, tag) # NoTpl
  THEN Execute(Lookup(templates, tag), tag, content)
  ELSE IF tag \notin standardTags THEN << >>
  ELSE Builtin(tag, content)

\* Executing a template marks the set it belongs to.
Executes(templates, pair) ==
  ~templates.nil /\ (Lookup(templates, pair.Key \o ".html") # NoTpl
                     \/ Lookup(templates, pair.Key) # NoTpl)

OpenDiv(id) == Piece("<div>", id, NoTpl, NoVal)
CloseDiv(id) == Piece("</div>", id, NoTpl, NoVal)

RECURSIVE RenderPairs(_, _, _), RenderItems(_, _, _)
RenderPairs(templates, pairs, i) ==
  IF i > Len(pairs) THEN << >>
  ELSE RenderPair(templates, pairs[i]) \o RenderPairs(templates, pairs, i + 1)
RenderItems(templates, items, i) ==
  IF i > Len(items) THEN << >>
  ELSE << OpenDiv(items[i].ID) >> \o RenderPairs(templates, items[i].Content, 1)
       \o << CloseDiv(items[i].ID) >> \o RenderItems(templates, items, i + 1)

Response(status, csslib, script, body) ==
  [status |-> status, csslib |-> csslib, script |-> script, body |-> body]
NoResponse == Response(0, "", {}, << >>)

\* renderHTML(w, items, flags), run without interruption.  The script block
\* is written when script is not empty, one assignment per entry.
renderHTML(templates, items, flags) ==
  Response(200, CssLibOf(flags), CollectItems({}, templates, items, 1),
           RenderItems(templates, items, 1))

(***************************************************************************)
(* The documents served (index.json and index.<name>.json): any sequence    *)
(* of at most MaxTop top-level entries taken from a pool, and some more.    *)
(***************************************************************************)
MaxTop == 2

Block1 == Entry("1", SObj(<< Entry("h1", SStr("T1")), Entry("x", SStr("X1")) >>))
Block2 == Entry("2", SObj(<< Entry("card", SStr("C2")), Entry("h1", SStr("T2")),
                             Entry("x", SStr("X2")) >>))
Block3 == Entry("3", SObj(<< Entry("x", SStr("X3")), Entry("card", SStr("C3")) >>))
Note1  == Entry("note", SStr("hi"))
Note2  == Entry("note", SArr(<< SObj(<< Entry("2", SObj(<< Entry("h1", SLit("1")),
                                                         Entry("card", SLit("2")) >>)) >>) >>))
Flags1 == Entry("flags", SObj(<< Entry("csslib", SStr("Bootstrap")),
                                 Entry("apiKey", SStr("SECRET")),
                                 Entry("designprompt", SStr("dark")) >>))
Flags2 == Entry("flags", SObj(<< Entry("x", SStr("SECRET")),
                                 Entry("3", SObj(<< Entry("x", SStr("secret")) >>)) >>))

\* A flags entry that holds nothing but a design prompt.
\* Blocks of standard tags that no template of components/ covers: values
\* with markup characters, lists, and scalars where a list is expected.
Markup == Entry("m", SObj(<< Entry("p", SStr("<b>X</b>")),
                             Entry("img", SStr("a.png\" onerror=\"x")),
                             Entry("ul", SArr(<< SStr("<b>X</b>"), SStr("plain") >>)) >>))
Lists == Entry("l", SObj(<< Entry("ul", SArr(<< SStr("a"), SStr("b") >>)),
                            Entry("ol", SArr(<< SStr("b"), SStr("a") >>)) >>))
Scalars == Entry("s", SObj(<< Entry("ol", SStr("a")), Entry("ul", SStr("b")) >>))
\* A block whose key is written with a blank before the colon.
Spaced == EntrySp("4", SObj(<< Entry("h1", SStr("T4")), Entry("p", SStr("P4")) >>))

Design(p) == Entry("flags", SObj(<< Entry("designprompt", SStr(p)) >>))
DesignPrompts == {"dark", " dark ", "dark moody", "clean serif", OldUUID}

EntryNames == {"Block1", "Block2", "Block3", "Note1", "Note2", "Flags1", "Flags2"}
EntryOf(n) ==
  CASE n = "Block1" -> Block1 [] n = "Block2" -> Block2 [] n = "Block3" -> Block3
    [] n = "Note1" -> Note1 [] n = "Note2" -> Note2
    [] n = "Flags1" -> Flags1 [] n = "Flags2" -> Flags2
    [] n = "Markup" -> Markup [] n = "Lists" -> Lists [] n = "Scalars" -> Scalars
    [] n = "Spaced" -> Spaced
    [] OTHER -> Design(n)

\* A document is named by the entries it is made of; << "Cut" >> names the
\* file that holds Block1 and lacks its last character.
SeqsUpTo(X, n) == UNION {[1..k -> X] : k \in 0..n}
\* Some longer documents: three blocks, flags in the middle, a block after
\* entries that hold its key inside.
LongDocs ==
  {<< "Block1", "Block2", "Block3" >>, << "Block3", "Flags1", "Block2" >>,
   << "Note2", "Block1", "Block2" >>, << "Flags2", "Block3", "Block1" >>}
PageDocs == SeqsUpTo(EntryNames, MaxTop) \cup LongDocs \cup {<< "Cut" >>}
\* The documents that ask for a design: a prompt, then at most one block.
DesignDocs == {<< p >> : p \in DesignPrompts} \cup (DesignPrompts \X {"Block1", "Block2"})
\* The documents that exercise the builtin rendering of standard tags.
BuiltinDocs ==
  {<< "Markup" >>, << "Lists" >>, << "Scalars" >>, << "Lists", "Markup" >>,
   << "Block1", "Lists" >>, << "Scalars", "Block2" >>, << "Markup", "Scalars" >>,
   << "Flags1", "Lists", "Scalars" >>, << "Spaced" >>}
Docs == PageDocs \cup DesignDocs \cup BuiltinDocs
TreeOf(d) ==
  IF d = << "Cut" >> THEN SCut(SObj(<< Block1 >>))
  ELSE SObj([i \in 1..Len(d) |-> EntryOf(d[i])])

\* The default template directories a site may have: components/*.html by
\* template name (a bare name comes from a {{define}} inside a file).
Comp(name, body) == [name |-> name, body |-> [kind |-> body]]
ComponentSets ==
  { {},
    {Comp("card.html", "dot")},
    {Comp("card.html", "dot"), Comp("card", "field"), Comp("x", "dot")},
    {Comp("h1.html", "dot"), Comp("card", "field")} }

\* What components/cached may hold when the process starts.
InitialCaches ==
  { [d \in DirNames |-> NoDir],
    [d \in DirNames |-> IF d = OldUUID
                        THEN [exists |-> TRUE, prompt |-> {"dark moody"},
                              h1 |-> {h1Content("dark moody")},
                              div |-> {divContent("dark moody")}, card |-> {}]
                        ELSE NoDir],
    \* a design made by hand: its own card.html beside a generated h1.html
    [d \in DirNames |-> IF d = OldUUID
                        THEN [exists |-> TRUE, prompt |-> {"dark moody"},
                              h1 |-> {h1Content("dark moody")},
                              div |-> {}, card |-> {[kind |-> "dot"]}]
                        ELSE NoDir] }

(***************************************************************************)
(* The server.                                                              *)
(***************************************************************************)
VARIABLES
  aiDesign,    \* the --ai-design switch
  components,  \* the default template files
  cached,      \* components/cached: directory name -> its files
  templates,   \* the global template set
  doc,         \* the document of the request being answered
  resp,        \* its response
  resolved,    \* history: the identifier each prompt got when first resolved
  latest,      \* history: the design resolution of the request being answered
  heap,        \* the template sets in memory, by the request that made them
  ptr,         \* the set the global templates points to
  pc,          \* overlapping requests: where each handler goroutine stands
  rq           \* overlapping requests: the local variables of each handler

vars == << aiDesign, components, cached, templates, doc, resp, resolved, latest,
           heap, ptr, pc, rq >>

NoResolution ==
  [prompt |-> << >>, uuid |-> "", generated |-> FALSE, again |-> FALSE,
   failed |-> FALSE]

\* The requests that may overlap, and the template sets: 0 is the set parsed
\* by main(), r the set parsed by request r.
Requests == {1, 2}
Objs == {0} \cup Requests

NoRequest ==
  [doc |-> << >>, uuid |-> "", files |-> << >>, i |-> 0, obj |-> 0,
   seen |-> NilTemplates, half |-> FALSE, changed |-> FALSE, failed |-> FALSE,
   resp |-> NoResponse]

\* main(): the switch is read and the default templates are parsed.
Init ==
  /\ aiDesign \in BOOLEAN
  /\ components \in ComponentSets
  /\ cached \in InitialCaches
  /\ templates = ParseDefault(components)
  /\ doc = << >>
  /\ resp = NoResponse
  /\ resolved = {}
  /\ latest = NoResolution
  /\ heap = [o \in Objs |-> IF o = 0 THEN ParseDefault(components) ELSE NilTemplates]
  /\ ptr = 0
  /\ pc = [r \in Requests |-> "idle"]
  /\ rq = [r \in Requests |-> NoRequest]

\* flags: the decoded "flags" entry when it is an object, else a nil map.
FlagsOf(jsonData) ==
  IF MapHas(jsonData, "flags") /\ MapGet(jsonData, "flags").kind = "map"
  THEN MapGet(jsonData, "flags").m ELSE {}

\* Whether rendering the items executes a template of the set.
RECURSIVE AnyExecutes(_, _, _)
AnyExecutes(tm, its, i) ==
  IF i > Len(its) THEN FALSE
  ELSE (\E j \in 1..Len(its[i].Content) : Executes(tm, its[i].Content[j]))
       \/ AnyExecutes(tm, its, i + 1)

\* What the handler decodes from the file: json.Unmarshal, the flags, and
\* parseOrderedJSON on the same bytes.
Decode(d) ==
  LET data == TextOf(TreeOf(d))
      u == Unmarshal(data)
  IN [ok |-> u.ok, flags |-> FlagsOf(u.m),
      items |-> IF u.ok THEN parseOrderedJSON(data).items ELSE << >>]

\* Decode of every document, computed once (@@ makes the table explicit).
Decoded == [d \in Docs |-> Decode(d)] @@ << >>

\* handler(w, r) for one request, run without interruption: the document
\* d is the content of the JSON file the request names.
HandlerIO(d, outcomes) ==
  LET flags == Decoded[d].flags
      design == MapHas(flags, "designprompt") /\ aiDesign
      prompt == Sprintv(MapGet(flags, "designprompt"))
      its == Decoded[d].items
      again == \E e \in resolved : e.prompt = TrimSpace(prompt)
  IN
  /\ resp = NoResponse
  /\ doc' = d
  /\ UNCHANGED << aiDesign, components, ptr, pc, rq >>
  /\ IF ~Decoded[d].ok
     THEN /\ resp' = Response(500, "", {}, << >>)
          /\ UNCHANGED << cached, templates, heap, resolved, latest >>
     ELSE \E mkdirOk \in BOOLEAN :
          \E written \in outcomes :
          \E g \in {IF design
                     THEN getOrGenerateDesignIO(cached, prompt, mkdirOk, written)
                     ELSE [uuid |-> "", cached |-> cached, generated |-> FALSE,
                           failed |-> FALSE]} :
          \E tm \in {IF design THEN parseTemplates(components, g.cached, g.uuid)
                      ELSE templates} :
             /\ (mkdirOk \/ (design /\ ~IsKnownUUID(cached, prompt)
                             /\ ScanDirs(cached, ReadDir(cached), prompt, 1) = ""))
             /\ cached' = g.cached
             /\ resp' = renderHTML(tm, its, flags)
             /\ templates' = [tm EXCEPT !.escaped = @ \/ AnyExecutes(tm, its, 1)]
             /\ heap' = [heap EXCEPT ![ptr] = templates']
             /\ resolved' = IF design /\ ~again /\ g.uuid # ""
                            THEN resolved \cup {[prompt |-> TrimSpace(prompt),
                                                  uuid |-> g.uuid]}
                            ELSE resolved
             /\ latest' = IF design
                          THEN [prompt |-> TrimSpace(prompt), uuid |-> g.uuid,
                                generated |-> g.generated, again |-> again,
                                failed |-> g.failed]
                          ELSE NoResolution

\* The handler when every write to the cache succeeds.
Handler(d) == HandlerIO(d, {AllWritten})

\* The response has been sent; the request's variables are gone.
Deliver ==
  /\ resp # NoResponse
  /\ doc' = << >>
  /\ resp' = NoResponse
  /\ latest' = NoResolution
  /\ UNCHANGED << aiDesign, components, cached, templates, resolved, heap, ptr, pc, rq >>

\* Requests for pages, answered one at a time.
Next == (\E d \in PageDocs : Handler(d)) \/ Deliver

Spec == Init /\ [][Next]_vars

\* Requests for designed pages, answered one at a time.
NextDesign == (\E d \in DesignDocs : Handler(d)) \/ Deliver

SpecDesign == Init /\ [][NextDesign]_vars

\* Requests for pages of standard tags, answered one at a time.
NextBuiltin == (\E d \in BuiltinDocs : Handler(d)) \/ Deliver

SpecBuiltin == Init /\ [][NextBuiltin]_vars

\* Requests for designed pages while writes to components/cached may fail.
FailDocs ==
  {<< "dark", "Block1" >>, << "clean serif", "Block1" >>,
   << "dark moody", "Block2" >>, << "Block1" >>}

NextFail == (\E d \in FailDocs : HandlerIO(d, WriteOutcomes)) \/ Deliver

SpecFail == Init /\ [][NextFail]_vars

\* Design resolution by itself, over prompts that spell the keywords in any
\* case and order, inside longer words, or not at all.
StylePrompts ==
  {"", "plain", "dark", "moody", "clean", "serif", "dark moody", "Moody Dark",
   "clean serif", "Serif CLEAN", "moody clean", "darkness", "sans-serif",
   "DARK clean Moody serif"}

Resolve(prompt) ==
  \E mkdirOk \in BOOLEAN :
  \E g \in {getOrGenerateDesign(cached, prompt, mkdirOk)} :
    /\ cached' = g.cached
    /\ latest' = [prompt |-> Words(prompt), uuid |-> g.uuid,
                  generated |-> g.generated, again |-> FALSE, failed |-> g.failed]
    /\ UNCHANGED << aiDesign, components, templates, doc, resp, resolved,
                    heap, ptr, pc, rq >>

NextStyle == \E prompt \in StylePrompts : Resolve(prompt)

SpecStyle == Init /\ [][NextStyle]_vars

(***************************************************************************)
(* Overlapping requests.  net/http runs every handler in a goroutine of its  *)
(* own; the handlers share components/cached and the global templates, and  *)
(* the program takes no lock.  A handler advances by one read or write of   *)
(* what is shared at a time.                                                *)
(***************************************************************************)
ConcDocs ==
  {<< "dark", "Block1" >>, << " dark ", "Block2" >>, << "dark moody", "Block1" >>,
   << OldUUID, "Block1" >>, << "Block1" >>, << "Cut" >>}

PromptOf(d) == Sprintv(MapGet(Decoded[d].flags, "designprompt"))
WantsDesign(d) == MapHas(Decoded[d].flags, "designprompt") /\ aiDesign

Goto(r, label) == pc' = [pc EXCEPT ![r] = label]
Shared == << aiDesign, components, doc, resp, resolved, latest >>

\* handler: the file is read and decoded.  Requests are numbered as they come.
Begin(r, d) ==
  /\ pc[r] = "idle"
  /\ r > 1 => pc[r - 1] # "idle"
  /\ rq' = [rq EXCEPT ![r].doc = d,
                      ![r].resp = IF Decoded[d].ok THEN NoResponse
                                  ELSE Response(500, "", {}, << >>)]
  /\ Goto(r, IF ~Decoded[d].ok THEN "done"
             ELSE IF WantsDesign(d) THEN "stat" ELSE "pass1")
  /\ UNCHANGED << Shared, cached, templates, heap, ptr >>

\* getOrGenerateDesign, step 1: os.Stat of a prompt that looks like an identifier.
Stat(r) ==
  /\ pc[r] = "stat"
  /\ IF IsKnownUUID(cached, PromptOf(rq[r].doc))
     THEN rq' = [rq EXCEPT ![r].uuid = PromptOf(rq[r].doc)] /\ Goto(r, "parseDefault")
     ELSE UNCHANGED rq /\ Goto(r, "readdir")
  /\ UNCHANGED << Shared, cached, templates, heap, ptr >>

\* Step 2: ioutil.ReadDir lists the directories there are now.
ReadDirStep(r) ==
  /\ pc[r] = "readdir"
  /\ rq' = [rq EXCEPT ![r].files = ReadDir(cached), ![r].i = 1]
  /\ Goto(r, IF ReadDir(cached) = << >> THEN "mkdir" ELSE "scan")
  /\ UNCHANGED << Shared, cached, templates, heap, ptr >>

\* Step 2, one turn of the loop: prompt.txt of a listed directory is read.
Scan(r) ==
  LET f == rq[r].files[rq[r].i] IN
  /\ pc[r] = "scan"
  /\ IF PromptMatches(cached, f, PromptOf(rq[r].doc))
     THEN rq' = [rq EXCEPT ![r].uuid = f] /\ Goto(r, "parseDefault")
     ELSE IF rq[r].i = Len(rq[r].files)
     THEN UNCHANGED rq /\ Goto(r, "mkdir")
     ELSE rq' = [rq EXCEPT ![r].i = @ + 1] /\ UNCHANGED pc
  /\ UNCHANGED << Shared, cached, templates, heap, ptr >>

\* Step 3: generateUUID and os.MkdirAll, which may fail.
Mkdir(r) ==
  /\ pc[r] = "mkdir"
  /\ \E mkdirOk \in BOOLEAN :
       IF mkdirOk
       THEN /\ cached' = MkdirAll(cached, NewUUID)
            /\ UNCHANGED rq
            /\ Goto(r, "create")
       ELSE /\ rq' = [rq EXCEPT ![r].failed = TRUE]
            /\ UNCHANGED cached
            /\ Goto(r, "parseDefault")
  /\ UNCHANGED << Shared, templates, heap, ptr >>

\* ioutil.WriteFile of prompt.txt opens the file with O_TRUNC ...
CreatePrompt(r) ==
  /\ pc[r] = "create"
  /\ cached' = WritePrompt(cached, NewUUID, "")
  /\ Goto(r, "writePrompt")
  /\ UNCHANGED << Shared, templates, heap, ptr, rq >>

\* ... and writes the prompt.
WritePromptStep(r) ==
  /\ pc[r] = "writePrompt"
  /\ cached' = WritePrompt(cached, NewUUID, PromptOf(rq[r].doc))
  /\ Goto(r, "writeH1")
  /\ UNCHANGED << Shared, templates, heap, ptr, rq >>

\* generateTemplates: h1.html, then div.html.
WriteH1Step(r) ==
  /\ pc[r] = "writeH1"
  /\ cached' = WriteH1(cached, NewUUID, PromptOf(rq[r].doc))
  /\ Goto(r, "writeDiv")
  /\ UNCHANGED << Shared, templates, heap, ptr, rq >>

WriteDivStep(r) ==
  /\ pc[r] = "writeDiv"
  /\ cached' = WriteDiv(cached, NewUUID, PromptOf(rq[r].doc))
  /\ rq' = [rq EXCEPT ![r].uuid = NewUUID]
  /\ Goto(r, "parseDefault")
  /\ UNCHANGED << Shared, templates, heap, ptr >>

\* parseTemplates: templates, err = template.ParseGlob("components/*.html").
ParseDefaultStep(r) ==
  /\ pc[r] = "parseDefault"
  /\ heap' = [heap EXCEPT ![r] = ParseDefault(components)]
  /\ ptr' = r
  /\ templates' = ParseDefault(components)
  /\ Goto(r, IF rq[r].uuid = "" THEN "pass1" ELSE "glob")
  /\ UNCHANGED << Shared, cached, rq >>

\* customTemplates, err := template.ParseGlob(customPath), and the test of
\* the global against nil.
Glob(r) ==
  LET files == CustomFiles(cached, rq[r].uuid) IN
  /\ pc[r] = "glob"
  /\ IF files = << >>
     THEN UNCHANGED << heap, ptr, templates >> /\ Goto(r, "pass1")
     ELSE IF heap[ptr].nil
     THEN /\ heap' = [heap EXCEPT ![r] = Registry({files[k] : k \in 1..Len(files)})]
          /\ ptr' = r
          /\ templates' = heap'[r]
          /\ Goto(r, "pass1")
     ELSE UNCHANGED << heap, ptr, templates >> /\ Goto(r, "merge")
  /\ UNCHANGED << Shared, cached, rq >>

\* templates.ParseGlob(customPath): the set the global points to now takes
\* the first file there is now; a nil set takes nothing.
Merge(r) ==
  LET files == CustomFiles(cached, rq[r].uuid) IN
  /\ pc[r] = "merge"
  /\ IF heap[ptr].nil \/ heap[ptr].escaped
     THEN UNCHANGED << heap, rq >> /\ Goto(r, "pass1")
     ELSE /\ heap' = [heap EXCEPT ![ptr] = MergeFile(@, files[1])]
          /\ rq' = [rq EXCEPT ![r].obj = ptr, ![r].files = Tail(files)]
          /\ Goto(r, IF Len(files) = 1 THEN "pass1" ELSE "merge2")
  /\ templates' = heap'[ptr]
  /\ UNCHANGED << Shared, cached, ptr >>

\* The same call, second file, into the same set.
Merge2(r) ==
  /\ pc[r] = "merge2"
  /\ heap' = [heap EXCEPT ![rq[r].obj] = MergeFile(@, rq[r].files[1])]
  /\ templates' = heap'[ptr]
  /\ Goto(r, "pass1")
  /\ UNCHANGED << Shared, cached, ptr, rq >>

\* Request q has loaded the defaults into the set the global points to and
\* has not yet finished laying its overrides over them.
Building(q) == pc[q] \in {"glob", "merge", "merge2"} /\ ptr = q
HalfBuilt(r) == \E q \in Requests \ {r} : Building(q)

\* renderHTML, first pass: every tag is looked up in the global set; the
\* pass is taken as one step.
Pass1(r) ==
  /\ pc[r] = "pass1"
  /\ rq' = [rq EXCEPT
              ![r].resp = Response(0, CssLibOf(Decoded[rq[r].doc].flags),
                                   CollectItems({}, templates, Decoded[rq[r].doc].items, 1),
                                   << >>),
              ![r].seen = [templates EXCEPT !.escaped = FALSE],
              ![r].half = HalfBuilt(r)]
  /\ Goto(r, "pass2")
  /\ UNCHANGED << Shared, cached, templates, heap, ptr >>

\* renderHTML, body pass, taken as one step: the global set is looked up
\* again for every tag, and executing a template marks its set.
Pass2(r) ==
  LET its == Decoded[rq[r].doc].items IN
  /\ pc[r] = "pass2"
  /\ rq' = [rq EXCEPT
              ![r].resp = [@ EXCEPT !.status = 200,
                                    !.body = RenderItems(templates, its, 1)],
              ![r].changed = (rq[r].seen # [templates EXCEPT !.escaped = FALSE]),
              ![r].half = @ \/ HalfBuilt(r)]
  /\ heap' = [heap EXCEPT ![ptr].escaped = @ \/ AnyExecutes(templates, its, 1)]
  /\ templates' = heap'[ptr]
  /\ Goto(r, "done")
  /\ UNCHANGED << Shared, cached, ptr >>

Step(r) ==
  \/ \E d \in ConcDocs : Begin(r, d)
  \/ Stat(r) \/ ReadDirStep(r) \/ Scan(r) \/ Mkdir(r)
  \/ CreatePrompt(r) \/ WritePromptStep(r) \/ WriteH1Step(r) \/ WriteDivStep(r)
  \/ ParseDefaultStep(r) \/ Glob(r) \/ Merge(r) \/ Merge2(r)
  \/ Pass1(r) \/ Pass2(r)

NextConc == \E r \in Requests : Step(r)

SpecConc == Init /\ [][NextConc]_vars

(***************************************************************************)
(* What the claims speak about, read off the state.                         *)
(***************************************************************************)
\* A request has been answered with a page.
Rendered == resp.status = 200
\* The content items the page was rendered from.
Items == Decoded[doc].items
\* The top-level entries of the document as written.
TopEntries == TreeOf(doc).ents
UniqueTopKeys ==
  \A i, j \in 1..Len(TopEntries) : TopEntries[i].key = TopEntries[j].key => i = j
IsBlockEntry(e) == e.key # "flags" /\ e.val.kind = "obj"
EntryKeys(e) == [i \in 1..Len(e.val.ents) |-> e.val.ents[i].key]
\* The position of the first k in a sequence of keys, 0 when absent.
PosIn(keys, k) ==
  IF \E i \in 1..Len(keys) : keys[i] = k
  THEN CHOOSE i \in 1..Len(keys) : keys[i] = k /\ \A j \in 1..(i - 1) : keys[j] # k
  ELSE 0
IsDiv(p) == p.o \in {"<div>", "</div>"}
\* The identifiers of the containers of a body, in the order written.
DivIds(body) ==
  LET opens == SelectSeq(body, LAMBDA p : p.o = "<div>")
  IN [i \in 1..Len(opens) |-> opens[i].tag]
\* The container a piece of the body stands in: the last one opened before it.
BlockAt(body, i) ==
  LET o == CHOOSE k \in 1..i : body[k].o = "<div>"
                               /\ \A m \in (k + 1)..i : body[m].o # "<div>"
  IN body[o].tag
SourceEntry(k) == TopEntries[PosIn([i \in 1..Len(TopEntries) |-> TopEntries[i].key], k)]
\* The string atoms of a decoded value, at any depth.
RECURSIVE AtomsOf(_)
AtomsOf(v) ==
  CASE v.kind = "str" -> {v.s}
    [] v.kind = "lit" -> {v.s}
    [] v.kind = "arr" -> UNION {AtomsOf(v.items[i]) : i \in 1..Len(v.items)}
    [] v.kind = "map" -> UNION {AtomsOf(e.val) : e \in v.m}
    [] OTHER -> {}
\* Every value the page prints, in the script block or in the body.
PrintedAtoms ==
  UNION ({AtomsOf(e.val) : e \in resp.script}
         \cup {AtomsOf(resp.body[i].val) : i \in 1..Len(resp.body)})
\* The names the page prints: script keys, container ids and tags.
PrintedNames ==
  {e.key : e \in resp.script} \cup {resp.body[i].tag : i \in 1..Len(resp.body)}
FlagAtoms == UNION {AtomsOf(e.val) : e \in Decoded[doc].flags}
\* Every (block, pair) position of the content items.
Occurrences ==
  UNION {{<< i, j >> : j \in 1..Len(Items[i].Content)} : i \in 1..Len(Items)}
PairAt(o) == Items[o[1]].Content[o[2]]
Before(o1, o2) == o1[1] < o2[1] \/ (o1[1] = o2[1] /\ o1[2] < o2[2])
RegistryHas(name) == ~templates.nil /\ \E e \in templates.set : e.name = name

(***************************************************************************)
(* C1: in a document with distinct top-level keys, the containers of the    *)
(* body are the object-valued entries other than flags in source order,     *)
(* and inside a container the tags are written in the order of the keys     *)
(* of that entry in the source.                                             *)
(***************************************************************************)
C1_SourceOrder ==
  (Rendered /\ UniqueTopKeys) =>
    /\ DivIds(resp.body) =
         LET blocks == SelectSeq(TopEntries, IsBlockEntry)
         IN [i \in 1..Len(blocks) |-> blocks[i].key]
    /\ \A i, j \in 1..Len(resp.body) :
         (i < j /\ ~IsDiv(resp.body[i]) /\ ~IsDiv(resp.body[j])
            /\ \A m \in i..j : ~IsDiv(resp.body[m]))
         => LET keys == EntryKeys(SourceEntry(BlockAt(resp.body, i)))
            IN PosIn(keys, resp.body[i].tag) <= PosIn(keys, resp.body[j].tag)

\* The part of C1 the program keeps: the containers follow the source order.
C1_BlockOrder ==
  (Rendered /\ UniqueTopKeys) =>
    DivIds(resp.body) =
      LET blocks == SelectSeq(TopEntries, IsBlockEntry)
      IN [i \in 1..Len(blocks) |-> blocks[i].key]

(***************************************************************************)
(* C2: no value stored under flags is printed by the page, as written or    *)
(* lower-cased: not in the head, not in the script block, not in the body.  *)
(***************************************************************************)
C2_NoFlagValueAnywhere ==
  Rendered =>
    \A a \in FlagAtoms :
      /\ a \notin PrintedAtoms /\ LowerWord(a) \notin PrintedAtoms
      /\ resp.csslib \notin {a, LowerWord(a)}

(***************************************************************************)
(* C2 as amended: no value stored under flags is printed in the script      *)
(* block or in the body, and the head differs from the head of a document   *)
(* without flags only by the CDN tags of the framework that a csslib flag    *)
(* names (compared in lower case).                                          *)
(***************************************************************************)
C2_FlagsOnlySelectCss ==
  Rendered =>
    /\ \A a \in FlagAtoms : a \notin PrintedAtoms /\ LowerWord(a) \notin PrintedAtoms
    /\ "flags" \notin PrintedNames
    /\ resp.csslib \in CssLibs \cup {""}
    /\ resp.csslib # "" =>
         \E e \in Decoded[doc].flags :
            e.key = "csslib" /\ e.val.kind = "str" /\ LowerWord(e.val.s) = resp.csslib

C2_Witness ==
  /\ Rendered
  /\ "SECRET" \in FlagAtoms
  /\ resp.csslib = "bootstrap"
  /\ resp.script # {}
  /\ Len(resp.body) > 2

(***************************************************************************)
(* The blocks of the document as written: the object-valued entries other   *)
(* than flags, their pairs, and the value a pair decodes to.                *)
(***************************************************************************)
SourceBlocks == SelectSeq(TopEntries, IsBlockEntry)
SourceOccurrences ==
  UNION {{<< i, j >> : j \in 1..Len(SourceBlocks[i].val.ents)} : i \in 1..Len(SourceBlocks)}
SourcePairAt(o) == SourceBlocks[o[1]].val.ents[o[2]]
RECURSIVE Written(_)
Written(v) ==
  CASE v.kind = "arr" -> VArr([i \in 1..Len(v.items) |-> Written(v.items[i])])
    [] v.kind = "obj" -> VMap({[key |-> v.ents[i].key, val |-> Written(v.ents[i].val)] :
                                 i \in 1..Len(v.ents)})
    [] OTHER -> v

InjectedAsData(tag) ==
  tag \notin standardTags /\ ~RegistryHas(tag \o ".html") /\ ~RegistryHas(tag)

(***************************************************************************)
(* C3: in a document with distinct top-level keys, a tag that is neither    *)
(* standard nor has a template has exactly one entry in the script block,   *)
(* holding the value of its last occurrence in the blocks of the document;  *)
(* the request succeeds.                                                    *)
(***************************************************************************)
C3_LastInDocument ==
  (resp # NoResponse /\ Decoded[doc].ok /\ UniqueTopKeys) =>
    /\ Rendered
    /\ \A o \in SourceOccurrences :
         InjectedAsData(SourcePairAt(o).key) =>
           LET final == CHOOSE l \in SourceOccurrences :
                         /\ SourcePairAt(l).key = SourcePairAt(o).key
                         /\ \A m \in SourceOccurrences :
                              SourcePairAt(m).key = SourcePairAt(o).key
                                => m = l \/ Before(m, l)
           IN /\ Cardinality({e \in resp.script : e.key = SourcePairAt(o).key}) = 1
              /\ \E e \in resp.script : /\ e.key = SourcePairAt(o).key
                                        /\ e.val = Written(SourcePairAt(final).val)

\* The part of C3 the program keeps: the same over the blocks handed to
\* renderHTML, whatever the document was.
C3_LastWriteWins ==
  (resp # NoResponse /\ Decoded[doc].ok) =>
    /\ Rendered
    /\ \A o \in Occurrences :
         InjectedAsData(PairAt(o).Key) =>
           LET final == CHOOSE l \in Occurrences :
                         /\ PairAt(l).Key = PairAt(o).Key
                         /\ \A m \in Occurrences :
                              PairAt(m).Key = PairAt(o).Key => m = l \/ Before(m, l)
           IN /\ Cardinality({e \in resp.script : e.key = PairAt(o).Key}) = 1
              /\ \E e \in resp.script : e.key = PairAt(o).Key /\ e.val = PairAt(final).Value

(***************************************************************************)
(* C4: with a template named card.html in the registry, every occurrence    *)
(* of the tag card in the blocks of a document with distinct top-level      *)
(* keys is rendered through that template in the body, and card is not an   *)
(* entry of the script block.                                               *)
(***************************************************************************)
CardPieces ==
  {i \in 1..Len(resp.body) :
     /\ resp.body[i].tag = "card"
     /\ resp.body[i].o \in {"template", "error"}
     /\ resp.body[i].tpl = Lookup(templates, "card.html")}

C4_CardInDocument ==
  (Rendered /\ UniqueTopKeys /\ RegistryHas("card.html")) =>
    /\ Cardinality(CardPieces)
         = Cardinality({o \in SourceOccurrences : SourcePairAt(o).key = "card"})
    /\ \A e \in resp.script : e.key # "card"

\* The part of C4 the program keeps: the same over the blocks handed to
\* renderHTML.
C4_CardTemplate ==
  (Rendered /\ RegistryHas("card.html")) =>
    /\ Cardinality(CardPieces) = Cardinality({o \in Occurrences : PairAt(o).Key = "card"})
    /\ \A i \in 1..Len(resp.body) :
         (resp.body[i].tag = "card" /\ ~IsDiv(resp.body[i]))
           => resp.body[i].tpl = Lookup(templates, "card.html")
    /\ \A e \in resp.script : e.key # "card"

(***************************************************************************)
(* C5: a top-level key whose value is not an object gets no container, no   *)
(* body output and no script entry, the request succeeds, and the page is   *)
(* the page of the same document without that key.                          *)
(***************************************************************************)
Without(d, i) == [k \in 1..(Len(d) - 1) |-> IF k < i THEN d[k] ELSE d[k + 1]]

C5_AsIfAbsent ==
  (resp # NoResponse /\ Decoded[doc].ok) =>
    \A i \in 1..Len(TopEntries) :
      (TopEntries[i].val.kind # "obj") =>
        /\ Rendered
        /\ TopEntries[i].key \notin PrintedNames
        /\ resp = renderHTML(templates, Decoded[Without(doc, i)].items,
                             Decoded[Without(doc, i)].flags)

\* The part of C5 the program keeps.
C5_Dropped ==
  (resp # NoResponse /\ Decoded[doc].ok) =>
    \A i \in 1..Len(TopEntries) :
      (TopEntries[i].val.kind # "obj") =>
        Rendered /\ TopEntries[i].key \notin PrintedNames

(***************************************************************************)
(* C10: every pair is rendered by the first of: the template named          *)
(* tag.html, the template named tag, the builtin element when the tag is    *)
(* standard; otherwise it is an entry of the script block and not written   *)
(* in the body.                                                             *)
(***************************************************************************)
Tier(tag) ==
  IF RegistryHas(tag \o ".html") THEN "suffixed"
  ELSE IF RegistryHas(tag) THEN "bare"
  ELSE IF tag \in standardTags THEN "builtin"
  ELSE "data"

TierPieces(pair) ==
  CASE Tier(pair.Key) = "suffixed" ->
         Execute((CHOOSE e \in templates.set : e.name = pair.Key \o ".html").tpl,
                 pair.Key, pair.Value)
    [] Tier(pair.Key) = "bare" ->
         Execute((CHOOSE e \in templates.set : e.name = pair.Key).tpl,
                 pair.Key, pair.Value)
    [] Tier(pair.Key) = "builtin" -> Builtin(pair.Key, pair.Value)
    [] OTHER -> << >>

RECURSIVE TierPairs(_, _), TierBody(_)
TierPairs(pairs, i) ==
  IF i > Len(pairs) THEN << >>
  ELSE TierPieces(pairs[i]) \o TierPairs(pairs, i + 1)
TierBody(i) ==
  IF i > Len(Items) THEN << >>
  ELSE << OpenDiv(Items[i].ID) >> \o TierPairs(Items[i].Content, 1)
       \o << CloseDiv(Items[i].ID) >> \o TierBody(i + 1)

C10_ThreeTiers ==
  Rendered =>
    /\ resp.body = TierBody(1)
    /\ {e.key : e \in resp.script} =
         {PairAt(o).Key : o \in {oc \in Occurrences : Tier(PairAt(oc).Key) = "data"}}

C10_Witness ==
  /\ Rendered
  /\ RegistryHas("card.html") /\ RegistryHas("card") /\ RegistryHas("x")
  /\ \E i, j, k \in 1..Len(resp.body) :
       /\ resp.body[i].tag = "card" /\ resp.body[i].o = "template"
       /\ resp.body[i].tpl = Lookup(templates, "card.html")
       /\ resp.body[j].tag = "x" /\ resp.body[j].tpl = Lookup(templates, "x")
       /\ resp.body[k].tag = "h1" /\ resp.body[k].o = "element"

(***************************************************************************)
(* C6: once a prompt has been resolved, every later resolution of the same  *)
(* prompt (compared without surrounding whitespace), also after other       *)
(* prompts were resolved in between, returns the identifier of the first    *)
(* time, generates and writes nothing, and no second directory holds the    *)
(* prompt.                                                                  *)
(***************************************************************************)
DirsOf(prompt) ==
  {d \in DirNames : cached[d].exists
                     /\ \E c \in cached[d].prompt : TrimSpace(c) = prompt}

C6_Idempotent ==
  latest.again =>
    /\ \E e \in resolved : e.prompt = latest.prompt /\ e.uuid = latest.uuid
    /\ ~latest.generated
    /\ Cardinality(DirsOf(latest.prompt)) <= 1

(***************************************************************************)
(* Overlapping resolutions of one prompt that no record holds at the start.  *)
(***************************************************************************)
AllDone == \A r \in Requests : pc[r] = "done"
NormPrompt(r) == TrimSpace(PromptOf(rq[r].doc))
\* A prompt that nothing the server started with can answer.  Requests write
\* into the directory NewUUID only, so the other directories are as they were.
Novel(p) ==
  \A d \in DirNames \ {NewUUID} : ~PromptMatches(cached, d, p) /\ ~(p = d /\ cached[d].exists)
\* Every request asks for a design, all with the same new prompt.
SameNovelPrompt ==
  /\ aiDesign
  /\ \A r \in Requests : rq[r].doc # << >> /\ WantsDesign(rq[r].doc)
  /\ \A r1, r2 \in Requests : NormPrompt(r1) = NormPrompt(r2)
  /\ Novel(PromptOf(rq[1].doc))

InSection(r) ==
  pc[r] \in {"readdir", "scan", "mkdir", "create", "writePrompt", "writeH1", "writeDiv"}

C8_Exclusive ==
  \A r1, r2 \in Requests :
    (r1 # r2 /\ InSection(r1) /\ InSection(r2)) => NormPrompt(r1) # NormPrompt(r2)

(***************************************************************************)
(* C9: a render sees one value of the template set from its first pass to    *)
(* the end of its body pass, and never the set of another request that has   *)
(* loaded the defaults and not yet merged its overrides.                     *)
(***************************************************************************)
C9_OneSnapshot ==
  \A r \in Requests :
    (pc[r] \in {"pass2", "done"} /\ rq[r].resp.status # 500)
      => ~rq[r].changed /\ ~rq[r].half

(***************************************************************************)
(* C11: the templates generated for a prompt carry the colours of the moody *)
(* rule when the lower-cased prompt contains "moody", else those of the     *)
(* dark rule when it contains "dark", else the default colours; the serif   *)
(* font when it contains "serif", else the clean font when it contains      *)
(* "clean", else the default font -- whatever the case and the order of the *)
(* words in the prompt.                                                     *)
(***************************************************************************)
Has(prompt, kw) == Contains(ToLower(prompt), kw)
Colours(prompt) ==
  IF Has(prompt, "moody") THEN << "#1a1a1a", "#dcdcdc", "#8e44ad" >>
  ELSE IF Has(prompt, "dark") THEN << "#2c3e50", "#ecf0f1", "#e74c3c" >>
  ELSE << "#ffffff", "#333333", "#3498db" >>
Font(prompt) ==
  IF Has(prompt, "serif") THEN "Georgia, serif"
  ELSE IF Has(prompt, "clean") THEN "'Helvetica Neue', Helvetica, Arial, sans-serif"
  ELSE "sans-serif"

C11_LaterRuleWins ==
  latest.generated =>
    \A prompt \in cached[latest.uuid].prompt :
      /\ cached[latest.uuid].h1 =
           {[kind |-> "h1", accentColor |-> Colours(prompt)[3], font |-> Font(prompt)]}
      /\ cached[latest.uuid].div =
           {[kind |-> "div", bgColor |-> Colours(prompt)[1],
             textColor |-> Colours(prompt)[2]]}

\* A prompt with both colour keywords in reverse order and capitals has been
\* generated with the moody accent.
C11_Witness ==
  /\ latest.generated
  /\ cached[latest.uuid].prompt = {"Moody Dark"}
  /\ \E t \in cached[latest.uuid].h1 : t.accentColor = "#8e44ad"

(***************************************************************************)
(* C12: the prompts resolved so far (other than references by identifier)   *)
(* have pairwise distinct identifiers, and the directory of each still      *)
(* holds that prompt in its prompt file: a later resolution has overwritten *)
(* no record.                                                               *)
(***************************************************************************)
\* The resolutions of prompts that are texts, not identifiers of a directory.
ResolvedTexts == {e \in resolved : \A d \in DirNames : e.prompt # << d >>}

C12_RecordPerPrompt ==
  \A e1 \in ResolvedTexts :
    /\ e1.uuid \in DirsOf(e1.prompt)
    /\ \A e2 \in ResolvedTexts : e1.prompt # e2.prompt => e1.uuid # e2.uuid

(***************************************************************************)
(* C13: a request that resolved an identifier whose directory holds         *)
(* generated templates renders every h1 and div pair through a template of  *)
(* that directory.                                                          *)
(***************************************************************************)
\* The names of the override layer of an identifier.
OverrideNames(uuid) ==
  {CustomFiles(cached, uuid)[k].name : k \in 1..Len(CustomFiles(cached, uuid))}
\* The body renders h1 and div through templates parsed from directory uuid.
ThroughGenerated(body, uuid) ==
  \A k \in 1..Len(body) :
    body[k].tag \in {"h1", "div"} /\ body[k].o \notin {"<div>", "</div>"}
      => body[k].o = "template" /\ body[k].tpl.dir = uuid

\* Overlapping requests: every answered request that resolved an identifier
\* with generated templates rendered h1 and div through them.
C13_OverrideRendered ==
  \A r \in Requests :
    pc[r] = "done" /\ rq[r].uuid # "" /\ rq[r].resp.status = 200
    /\ {"h1.html", "div.html"} \subseteq OverrideNames(rq[r].uuid)
      => ThroughGenerated(rq[r].resp.body, rq[r].uuid)

\* Requests answered one at a time: after a resolution the registry holds
\* every override file under its name and every other default unchanged,
\* and the page of the request is rendered through the overrides.
C13_Layered ==
  latest.uuid # "" /\ OverrideNames(latest.uuid) # {} =>
    /\ \A k \in 1..Len(CustomFiles(cached, latest.uuid)) :
         Lookup(templates, CustomFiles(cached, latest.uuid)[k].name)
           = CustomFiles(cached, latest.uuid)[k].tpl
    /\ \A c \in components :
         c.name \notin OverrideNames(latest.uuid)
           => Lookup(templates, c.name) = Tpl("components", c.body)
    /\ Rendered => ThroughGenerated(resp.body, latest.uuid)

(***************************************************************************)
(* C14: when os.MkdirAll or a write of prompt.txt, h1.html or div.html      *)
(* fails during a resolution, the resolution returns no identifier, the     *)
(* registry holds no template of a cache directory, no directory is left    *)
(* without its prompt file, and the request is answered with a page.        *)
(***************************************************************************)
PartialRecord(d) == cached[d].exists /\ cached[d].prompt = {}

C14_FailureAborts ==
  latest.failed =>
    /\ latest.uuid = ""
    /\ \A e \in templates.set : e.tpl.dir = "components"
    /\ \A d \in DirNames : ~PartialRecord(d)
    /\ Rendered

\* The same for a failure of os.MkdirAll alone.
C14_MkdirFailureAborts ==
  latest.failed /\ ~latest.generated =>
    /\ latest.uuid = ""
    /\ \A e \in templates.set : e.tpl.dir = "components"
    /\ \A d \in DirNames : ~PartialRecord(d)
    /\ Rendered

(***************************************************************************)
(* C15: when the execution of a template fails, the page holds the comment  *)
(* and nothing else for that tag, every other tag that has a template or is *)
(* standard is still written inside its container, and every container     *)
(* opened is closed, the last piece of the body being a closing one.        *)
(***************************************************************************)
Failed(k) == resp.body[k].o = "error"
SomeFailed == \E k \in 1..Len(resp.body) : Failed(k)

\* The failure does not stop the page.
C15_Isolated ==
  (Rendered /\ SomeFailed) =>
    /\ DivIds(resp.body) = [i \in 1..Len(Items) |-> Items[i].ID]
    /\ Len(SelectSeq(resp.body, LAMBDA p : p.o = "</div>")) = Len(Items)
    /\ resp.body[Len(resp.body)].o = "</div>"
    /\ \A o \in Occurrences :
         (hasTemplate(templates, PairAt(o).Key) \/ PairAt(o).Key \in standardTags)
           => \E k \in 1..Len(resp.body) :
                /\ resp.body[k].tag = PairAt(o).Key
                /\ ~IsDiv(resp.body[k])
                /\ BlockAt(resp.body, k) = Items[o[1]].ID

C15_CommentInPlace ==
  /\ C15_Isolated
  /\ Rendered =>
       \A k \in 1..Len(resp.body) :
         Failed(k) => (k = 1 \/ resp.body[k - 1].o # "partial")

(***************************************************************************)
(* C16: the containers of the page are the distinct top-level keys whose    *)
(* last value is an object, flags left out, each once and in the order of   *)
(* their first occurrence in the document.                                  *)
(***************************************************************************)
TopKeys == [i \in 1..Len(TopEntries) |-> TopEntries[i].key]
\* The value a duplicated key ends up with: that of its last occurrence.
LastValue(k) ==
  TopEntries[CHOOSE i \in 1..Len(TopEntries) :
               TopKeys[i] = k /\ \A j \in (i + 1)..Len(TopEntries) : TopKeys[j] # k].val
\* The positions where a key occurs for the first time.
FirstOccurrences ==
  SelectSeq([i \in 1..Len(TopEntries) |-> i],
            LAMBDA i : \A j \in 1..(i - 1) : TopKeys[j] # TopKeys[i])
UniqueBlocks ==
  LET firsts == SelectSeq(FirstOccurrences,
                          LAMBDA i : TopKeys[i] # "flags"
                                     /\ LastValue(TopKeys[i]).kind = "obj")
  IN [n \in 1..Len(firsts) |-> TopKeys[firsts[n]]]

C16_DuplicateOnce == Rendered => DivIds(resp.body) = UniqueBlocks

\* The same for documents without a duplicated top-level key.
C16_UniqueKept == (Rendered /\ UniqueTopKeys) => DivIds(resp.body) = UniqueBlocks

(***************************************************************************)
(* C17: no text that the builtin rendering of a standard tag inserts (the   *)
(* img source, a list item, the content of another tag) holds a markup      *)
(* character of its value unescaped.                                        *)
(***************************************************************************)
\* The strings in use that hold one of < > & " and their escaped spelling.
HasMarkup(text) == text \in {"<b>X</b>", "a.png\" onerror=\"x"}
HTMLEscape(text) ==
  CASE text = "<b>X</b>" -> "&lt;b&gt;X&lt;/b&gt;"
    [] text = "a.png\" onerror=\"x" -> "a.png&#34; onerror=&#34;x"
    [] OTHER -> text
\* The text a piece of the body puts into the page for its value: fmt's %v
\* as it is for the builtin pieces, escaped by html/template for {{.}}.
TextWritten(piece) ==
  CASE piece.o \in {"img", "li", "element"} -> Sprintv(piece.val)
    [] piece.o = "template" /\ piece.val.kind \in {"str", "lit"} ->
         HTMLEscape(Sprintv(piece.val))
    [] OTHER -> ""
IsBuiltin(piece) == piece.o \in {"img", "li", "element"}

C17_BuiltinEscaped ==
  Rendered =>
    \A k \in 1..Len(resp.body) :
      IsBuiltin(resp.body[k]) => ~HasMarkup(TextWritten(resp.body[k]))

(***************************************************************************)
(* C18: a ul or ol pair without a template is written as the opening tag,   *)
(* one list item per member in the order of the sequence (one item holding  *)
(* the value when it is a scalar), and the closing tag.                     *)
(***************************************************************************)
ExpectedList(tag, content) ==
  << Piece("<" \o tag \o ">", tag, NoTpl, NoVal) >>
  \o (IF content.kind = "arr"
      THEN [n \in 1..Len(content.items) |-> Piece("li", "ul", NoTpl, content.items[n])]
      ELSE << Piece("li", "ul", NoTpl, content) >>)
  \o << Piece("</" \o tag \o ">", tag, NoTpl, NoVal) >>
\* The pieces of the body written for occurrence o: those of its tag in the
\* o[1]-th container.
HasSegment(body, seg) ==
  \E k \in 1..Len(body) :
    k + Len(seg) - 1 <= Len(body) /\ SubSeq(body, k, k + Len(seg) - 1) = seg
ListPairs(tags) ==
  {o \in Occurrences : PairAt(o).Key \in tags /\ ~hasTemplate(templates, PairAt(o).Key)}

C18_ListItems ==
  Rendered =>
    \A o \in ListPairs({"ul", "ol"}) :
      HasSegment(resp.body, ExpectedList(PairAt(o).Key, PairAt(o).Value))

\* The same for ul alone.
C18_UlItems ==
  Rendered =>
    \A o \in ListPairs({"ul"}) :
      HasSegment(resp.body, ExpectedList(PairAt(o).Key, PairAt(o).Value))

(***************************************************************************)
(* C19: in a document with distinct top-level keys the content items are    *)
(* the object-valued entries other than flags, and each item holds exactly  *)
(* the (tag, value) pairs written in its own entry.                         *)
(***************************************************************************)
OwnPairs(entry) ==
  {<< entry.val.ents[j].key, Written(entry.val.ents[j].val) >> :
     j \in 1..Len(entry.val.ents)}
PairsHeld(item) ==
  {<< item.Content[j].Key, item.Content[j].Value >> : j \in 1..Len(item.Content)}

C19_OwnPairs ==
  (Decoded[doc].ok /\ UniqueTopKeys) =>
    /\ Len(Items) = Len(SourceBlocks)
    /\ \A i \in 1..Len(Items) :
         /\ Items[i].ID = SourceBlocks[i].key
         /\ PairsHeld(Items[i]) = OwnPairs(SourceBlocks[i])

(***************************************************************************)
(* C20: in every page sent, each (block, tag) occurrence of the content     *)
(* items either has its tag among the keys of the script block or has a     *)
(* piece in the body of its block, and not both; overlapping requests       *)
(* included.                                                                *)
(***************************************************************************)
OccurrencesOf(d) ==
  UNION {{<< i, j >> : j \in 1..Len(Decoded[d].items[i].Content)} :
           i \in 1..Len(Decoded[d].items)}
TagAt(d, o) == Decoded[d].items[o[1]].Content[o[2]].Key
InScript(page, tag) == \E e \in page.script : e.key = tag
\* The pieces between the o[1]-th opening of a container and its closing.
InBody(page, d, o) ==
  \E k \in 1..Len(page.body) :
    /\ page.body[k].tag = TagAt(d, o)
    /\ ~IsDiv(page.body[k])
    /\ Cardinality({m \in 1..k : page.body[m].o = "<div>"}) = o[1]

C20_OneClass ==
  \A r \in Requests :
    (pc[r] = "done" /\ rq[r].resp.status = 200) =>
      \A o \in OccurrencesOf(rq[r].doc) :
        InScript(rq[r].resp, TagAt(rq[r].doc, o)) # InBody(rq[r].resp, rq[r].doc, o)

(***************************************************************************)
(* C21: a page answered for a document without designprompt, or with the    *)
(* switch off, comes with no design resolution and is the page the default  *)
(* templates of components/ alone give; the request leaves                  *)
(* components/cached as it was.                                             *)
(***************************************************************************)
Undesigned == resp # NoResponse /\ Decoded[doc].ok /\ ~WantsDesign(doc)

C21_DefaultLayerOnly ==
  Undesigned =>
    /\ latest = NoResolution
    /\ resp = renderHTML(ParseDefault(components), Items, Decoded[doc].flags)

\* The part of C21 the program keeps: no resolution, nothing written.
C21_NothingResolved ==
  [][(resp = NoResponse /\ Undesigned') => (cached' = cached /\ latest' = NoResolution)]_vars

TypeOK ==
  /\ aiDesign \in BOOLEAN
  /\ components \in ComponentSets
  /\ resp.status \in {0, 200, 500}
====
